---- MODULE Spec2Model ----
(***************************************************************************)
(* Model of src/src/main.rs: the per-country partitioner.                  *)
(*                                                                         *)
(* main() runs create_dir_all, load_countries, load_states,                *)
(* group_states_by_country and write_country_files in sequence; every `?`  *)
(* is an early return with the error.  The file system is the environment: *)
(* the outcome of fs::metadata, fs::read_to_string and fs::write is chosen *)
(* nondeterministically at the step that makes the call.  The HashMap      *)
(* iteration order of write_country_files is a nondeterministic choice of  *)
(* the next key.                                                           *)
(*                                                                         *)
(* Text is modelled as a sequence of one-character strings.  A State       *)
(* record carries id and country_id; id stands for the payload fields      *)
(* (name, state_code, latitude, longitude, cities), which the program      *)
(* passes through without reading.                                         *)
(***************************************************************************)
EXTENDS Integers, Sequences, FiniteSets, TLC

\* ------------------------------------------------------------------ bounds

\* longest region file (states+cities.json) of a pipeline run
MaxRegionRecords == 2
\* longest country catalog (countries.json) of a pipeline run
MaxCatalogRecords == 2
\* number of times the pipeline is run against the same directories
MaxRuns == 2
\* most characters a failed fs::write leaves in its target
MaxPartialWrite == 1
\* longest State sequence handed to group_states_by_country on its own
MaxStates == 4
\* longest Country sequence handed to the index construction on its own
MaxCountries == 4
\* longest country code handed to the file name format on its own
MaxCodeLen == 2

\* country ids; 1 and 12 share a leading digit
CountryIds == {1, 12}
\* State ids of the pipeline's region file and of the grouping inputs
StateIds == {1, 2}
\* characters a country code is made of: a digit, the separator, a letter
CodeChars == {"2", "_", "X"}
\* iso2 values of the pipeline's country catalog
CatalogCodes == {<<"U", "S">>, <<"2", "X", "X">>}

SeqsUpTo(S, n) == UNION {[1..k -> S] : k \in 0..n}

EmptyMap == << >>

\* ------------------------------------------------------------- data model

Country == [id : CountryIds, code : CatalogCodes]

State == [id : StateIds, country_id : CountryIds]

NoError == [kind |-> "none", size |-> 0, max_size |-> 0]

Io == [kind |-> "Io", size |-> 0, max_size |-> 0]

Json == [kind |-> "Json", size |-> 0, max_size |-> 0]

FileTooLarge(size, max_size) ==
    [kind |-> "FileTooLarge", size |-> size, max_size |-> max_size]

MAX_FILE_SIZE == 100 * 1024 * 1024

FALLBACK_CODE == <<"X", "X">>

countries_path == "countries.json"

states_path == "states+cities.json"

\* ----------------------------------------------------------- environment

\* what fs::metadata can answer: an error, or a length
NotChecked == [seen |-> FALSE, ok |-> FALSE, len |-> 0]

MetadataError == [seen |-> TRUE, ok |-> FALSE, len |-> 0]

Metadata(n) == [seen |-> TRUE, ok |-> TRUE, len |-> n]

\* lengths of the files a pipeline run meets: at the ceiling, one byte over
PipelineFileSizes == {MAX_FILE_SIZE, MAX_FILE_SIZE + 1}

MetadataOutcomes == {MetadataError} \cup {Metadata(n) : n \in PipelineFileSizes}

\* lengths handed to validate_file_size on its own
FileSizes ==
    {0, 1, MAX_FILE_SIZE - 1, MAX_FILE_SIZE, MAX_FILE_SIZE + 1, MAX_FILE_SIZE + 2,
     2 * MAX_FILE_SIZE}

\* a source file's content: text serde_json rejects, or an array of records
MalformedFile == [wellformed |-> FALSE, records |-> << >>]

CatalogFiles ==
    {MalformedFile} \cup
    {[wellformed |-> TRUE, records |-> s] : s \in SeqsUpTo(Country, MaxCatalogRecords)}

RegionFiles ==
    {MalformedFile} \cup
    {[wellformed |-> TRUE, records |-> s] : s \in SeqsUpTo(State, MaxRegionRecords)}

\* ---------------------------------------------------------- pure functions

DigitChar == <<"0", "1", "2", "3", "4", "5", "6", "7", "8", "9">>

RECURSIVE u32_to_string(_)
u32_to_string(n) ==
    IF n < 10 THEN <<DigitChar[n + 1]>>
    ELSE u32_to_string(n \div 10) \o <<DigitChar[(n % 10) + 1]>>

\* the name without the separator between id and code
format_filename_nosep(country_id, code) ==
    u32_to_string(country_id) \o code \o <<".", "j", "s", "o", "n">>

\* format!("{country_id}_{code}.json")
format_filename(country_id, code) ==
    u32_to_string(country_id) \o <<"_">> \o code \o <<".", "j", "s", "o", "n">>

\* the size check with the ceiling itself refused
validate_file_size_inclusive(m) ==
    IF ~m.ok THEN Io
    ELSE IF m.len >= MAX_FILE_SIZE THEN FileTooLarge(m.len, MAX_FILE_SIZE)
    ELSE NoError

\* validate_file_size, on what fs::metadata(path) answers
validate_file_size(m) ==
    IF ~m.ok THEN Io
    ELSE IF m.len > MAX_FILE_SIZE THEN FileTooLarge(m.len, MAX_FILE_SIZE)
    ELSE NoError

\* an insert that keeps the value of a key already present
insert_keep_first(map, id, code) ==
    IF id \in DOMAIN map THEN map ELSE map @@ (id :> code)

\* HashMap::insert
insert(map, id, code) ==
    IF id \in DOMAIN map THEN [map EXCEPT ![id] = code] ELSE map @@ (id :> code)

RECURSIVE country_map_loop(_, _)
country_map_loop(map, countries) ==
    IF countries = << >> THEN map
    ELSE country_map_loop(insert(map, Head(countries).id, Head(countries).code),
                          Tail(countries))

build_country_map(countries) == country_map_loop(EmptyMap, countries)

\* the entry's Vec replaced by the new record
entry_push_replace(by, state) ==
    IF state.country_id \in DOMAIN by
    THEN [by EXCEPT ![state.country_id] = <<state>>]
    ELSE by @@ (state.country_id :> <<state>>)

\* the new record put first in the entry's Vec
entry_push_front(by, state) ==
    IF state.country_id \in DOMAIN by
    THEN [by EXCEPT ![state.country_id] = <<state>> \o @]
    ELSE by @@ (state.country_id :> <<state>>)

\* by_country.entry(state.country_id).or_default().push(state)
entry_or_default_push(by, state) ==
    IF state.country_id \in DOMAIN by
    THEN [by EXCEPT ![state.country_id] = Append(@, state)]
    ELSE by @@ (state.country_id :> <<state>>)

RECURSIVE group_loop(_, _)
group_loop(by, rest) ==
    IF rest = << >> THEN by
    ELSE group_loop(entry_or_default_push(by, Head(rest)), Tail(rest))

group_states_by_country(sts) == group_loop(EmptyMap, sts)

\* the lookup with an empty code for an id the index lacks
resolve_code_empty(map, country_id) ==
    IF country_id \in DOMAIN map THEN map[country_id] ELSE << >>

\* country_map.get(country_id).map(String::as_str).unwrap_or("XX")
resolve_code(map, country_id) ==
    IF country_id \in DOMAIN map THEN map[country_id] ELSE FALLBACK_CODE

state_to_json(s) ==
    <<"{", "i", "d", ":">> \o u32_to_string(s.id)
    \o <<",", "c", "i", "d", ":">> \o u32_to_string(s.country_id) \o <<"}">>

RECURSIVE states_to_json(_)
states_to_json(sts) ==
    IF sts = << >> THEN << >>
    ELSE state_to_json(Head(sts))
         \o (IF Tail(sts) = << >> THEN << >> ELSE <<",">>)
         \o states_to_json(Tail(sts))

to_string_pretty(sts) == <<"[">> \o states_to_json(sts) \o <<"]">>

\* a write that appends to a file already there
fs_write_append(dir, name, content) ==
    [n \in DOMAIN dir \cup {name} |->
        IF n = name
        THEN (IF name \in DOMAIN dir THEN dir[name] \o content ELSE content)
        ELSE dir[n]]

\* fs::write succeeding: the file is created or replaced
fs_write(dir, name, content) ==
    [n \in DOMAIN dir \cup {name} |-> IF n = name THEN content ELSE dir[n]]

Min(a, b) == IF a < b THEN a ELSE b

\* what a failed fs::write can leave: the directory as it was, or the target
\* created or truncated and holding a proper prefix of the content
FailedWriteOutcomes(dir, name, content) ==
    {dir} \cup {fs_write(dir, name, SubSeq(content, 1, n)) :
                    n \in 0..Min(MaxPartialWrite, Len(content) - 1)}

\* ------------------------------------------------------------------ state

VARIABLES
    pc,             \* where main() is: "main", "lc_validate", "lc_read",
                    \* "ls_validate", "ls_read", "group", "write", "done",
                    \* "failed"; or "call" / "return" of one function alone
    run,            \* which run of the program this is
    countries_json, \* content of data/raw/countries.json
    states_json,    \* content of data/raw/states+cities.json
    fs,             \* data/generated/per-country: file name -> content
    fs_start,       \* fs as this run found it
    last_write_log, \* write_log of the run before this one
    meta,           \* path -> what fs::metadata answered in this run
    read_log,       \* paths fs::read_to_string has returned the content of
    country_map,    \* main's country_map
    states,         \* main's states
    by_country,     \* main's by_country
    remaining,      \* keys of by_country the loop has not visited yet
    write_log,      \* the loop's iterations so far: key, file name, outcome
    err,            \* the error main returned
    failed_in,      \* the call of main whose `?` returned it
    arg,            \* argument of a function called on its own
    out             \* its result

vars == <<pc, run, countries_json, states_json, fs, fs_start, last_write_log,
          meta, read_log,
          country_map, states, by_country, remaining, write_log, err,
          failed_in, arg, out>>

disk == <<countries_json, states_json>>

memory == <<country_map, states, by_country, remaining>>

earlier == <<fs_start, last_write_log>>

fn == <<arg, out>>

NoCall == [fn |-> "none"]

\* a file of an earlier run whose country id is in no input of this model
StaleName == format_filename(7, <<"Z", "Z">>)

\* a file of an earlier run that this run writes when country 1 has no code
OverlapName == format_filename(1, FALLBACK_CODE)

OldContent == <<"[", "]">>

\* the output directory before the first run: empty, or left by an earlier run
InitialOutDirs ==
    {EmptyMap, [n \in {StaleName, OverlapName} |-> OldContent]}

StartOfRun ==
    /\ pc = "main"
    /\ meta = [p \in {countries_path, states_path} |-> NotChecked]
    /\ read_log = {}
    /\ country_map = EmptyMap
    /\ states = << >>
    /\ by_country = EmptyMap
    /\ remaining = {}
    /\ write_log = << >>
    /\ err = NoError
    /\ failed_in = "none"

Init ==
    /\ StartOfRun
    /\ run = 1
    /\ countries_json \in CatalogFiles
    /\ states_json \in RegionFiles
    /\ fs \in InitialOutDirs
    /\ fs_start = fs
    /\ last_write_log = << >>
    /\ arg = NoCall
    /\ out = << >>

\* `?`: main returns the error
Fail(e, call) ==
    /\ pc' = "failed"
    /\ err' = e
    /\ failed_in' = call

NoFail == UNCHANGED <<err, failed_in>>

\* ---------------------------------------------------------------- main()

\* fs::create_dir_all(&out_dir)?
CreateDirAll ==
    /\ pc = "main"
    /\ \/ pc' = "lc_validate" /\ NoFail
       \/ Fail(Io, "create_dir_all")
    /\ UNCHANGED <<run, disk, fs, earlier, meta, read_log, memory, write_log, fn>>

\* validate_file_size(path)? of a loader
ValidateStep(path, call, next) ==
    \E m \in MetadataOutcomes :
        /\ meta' = [meta EXCEPT ![path] = m]
        /\ IF validate_file_size(m) = NoError
           THEN pc' = next /\ NoFail
           ELSE Fail(validate_file_size(m), call)
        /\ UNCHANGED <<run, disk, fs, earlier, read_log, memory, write_log, fn>>

LoadCountriesValidate ==
    /\ pc = "lc_validate"
    /\ ValidateStep(countries_path, "load_countries", "lc_read")

\* fs::read_to_string, serde_json::from_str and the loop filling country_map,
\* swallowing a failure: the index stays empty and main goes on
LoadCountriesReadLenient ==
    /\ pc = "lc_read"
    /\ \/ /\ err' = Io /\ failed_in' = "load_countries"
          /\ pc' = "ls_validate"
          /\ UNCHANGED <<read_log, country_map>>
       \/ /\ read_log' = read_log \cup {countries_path}
          /\ IF countries_json.wellformed
             THEN /\ country_map' = build_country_map(countries_json.records)
                  /\ pc' = "ls_validate" /\ NoFail
             ELSE /\ err' = Json /\ failed_in' = "load_countries"
                  /\ pc' = "ls_validate"
                  /\ UNCHANGED country_map
    /\ UNCHANGED <<run, disk, fs, earlier, meta, states, by_country, remaining,
                   write_log, fn>>

\* fs::read_to_string, serde_json::from_str and the loop filling country_map
LoadCountriesRead ==
    /\ pc = "lc_read"
    /\ \/ /\ Fail(Io, "load_countries")
          /\ UNCHANGED <<read_log, country_map>>
       \/ /\ read_log' = read_log \cup {countries_path}
          /\ IF countries_json.wellformed
             THEN /\ country_map' = build_country_map(countries_json.records)
                  /\ pc' = "ls_validate" /\ NoFail
             ELSE /\ Fail(Json, "load_countries")
                  /\ UNCHANGED country_map
    /\ UNCHANGED <<run, disk, fs, earlier, meta, states, by_country, remaining,
                   write_log, fn>>

\* load_states without its size check
LoadStatesUnvalidated ==
    /\ pc = "ls_validate"
    /\ pc' = "ls_read"
    /\ UNCHANGED <<run, disk, fs, earlier, meta, read_log, memory, write_log,
                   err, failed_in, fn>>

LoadStatesValidate ==
    /\ pc = "ls_validate"
    /\ ValidateStep(states_path, "load_states", "ls_read")

\* fs::read_to_string and serde_json::from_str of load_states
LoadStatesRead ==
    /\ pc = "ls_read"
    /\ \/ /\ Fail(Io, "load_states")
          /\ UNCHANGED <<read_log, states>>
       \/ /\ read_log' = read_log \cup {states_path}
          /\ IF states_json.wellformed
             THEN /\ states' = states_json.records
                  /\ pc' = "group" /\ NoFail
             ELSE /\ Fail(Json, "load_states")
                  /\ UNCHANGED states
    /\ UNCHANGED <<run, disk, fs, earlier, meta, country_map, by_country,
                   remaining, write_log, fn>>

\* let by_country = group_states_by_country(states), and the entry of
\* write_country_files: the iterator over by_country
Group ==
    /\ pc = "group"
    /\ by_country' = group_states_by_country(states)
    /\ remaining' = DOMAIN by_country'
    /\ pc' = "write"
    /\ UNCHANGED <<run, disk, fs, earlier, meta, read_log, country_map, states,
                   write_log, err, failed_in, fn>>

LogEntry(k, name, ok) == [key |-> k, name |-> name, ok |-> ok]

\* one iteration of the loop of write_country_files that logs a failure and
\* goes on to the next group
WriteCountryFileContinue ==
    /\ pc = "write"
    /\ \E k \in remaining :
        LET code == resolve_code(country_map, k)
            filename == format_filename(k, code)
            json == to_string_pretty(by_country[k])
        IN  /\ remaining' = remaining \ {k}
            /\ \/ /\ err' = Io /\ failed_in' = "write_country_files"
                  /\ fs' \in FailedWriteOutcomes(fs, filename, json)
                  /\ write_log' = Append(write_log, LogEntry(k, filename, FALSE))
               \/ /\ fs' = fs_write(fs, filename, json)
                  /\ write_log' = Append(write_log, LogEntry(k, filename, TRUE))
                  /\ NoFail
    /\ UNCHANGED <<pc, run, disk, earlier, meta, read_log, country_map, states,
                   by_country, fn>>

\* one iteration of the loop of write_country_files, on the key the HashMap's
\* iterator yields next
WriteCountryFile ==
    /\ pc = "write"
    /\ \E k \in remaining :
        LET code == resolve_code(country_map, k)
            filename == format_filename(k, code)
            json == to_string_pretty(by_country[k])
        IN  \/ /\ Fail(Json, "write_country_files")
               /\ write_log' = Append(write_log, LogEntry(k, filename, FALSE))
               /\ UNCHANGED <<fs, remaining>>
            \/ /\ Fail(Io, "write_country_files")
               /\ fs' \in FailedWriteOutcomes(fs, filename, json)
               /\ write_log' = Append(write_log, LogEntry(k, filename, FALSE))
               /\ UNCHANGED remaining
            \/ /\ fs' = fs_write(fs, filename, json)
               /\ remaining' = remaining \ {k}
               /\ write_log' = Append(write_log, LogEntry(k, filename, TRUE))
               /\ UNCHANGED pc
               /\ NoFail
    /\ UNCHANGED <<run, disk, earlier, meta, read_log, country_map, states,
                   by_country, fn>>

\* the loop is over: write_country_files and main return Ok(())
Finish ==
    /\ pc = "write"
    /\ remaining = {}
    /\ pc' = "done"
    /\ UNCHANGED <<run, disk, fs, earlier, meta, read_log, memory, write_log,
                   err, failed_in, fn>>

\* the program is started again on the directories the last run left
Rerun ==
    /\ pc = "done"
    /\ run < MaxRuns
    /\ run' = run + 1
    /\ fs_start' = fs
    /\ last_write_log' = write_log
    /\ pc' = "main"
    /\ meta' = [p \in {countries_path, states_path} |-> NotChecked]
    /\ read_log' = {}
    /\ country_map' = EmptyMap
    /\ states' = << >>
    /\ by_country' = EmptyMap
    /\ remaining' = {}
    /\ write_log' = << >>
    /\ err' = NoError
    /\ failed_in' = "none"
    /\ UNCHANGED <<disk, fs, fn>>

Next ==
    \/ CreateDirAll
    \/ LoadCountriesValidate
    \/ LoadCountriesRead
    \/ LoadStatesValidate
    \/ LoadStatesRead
    \/ Group
    \/ WriteCountryFile
    \/ Finish
    \/ Rerun

Spec == Init /\ [][Next]_vars

\* ------------------------------------------------- one function on its own

Codes == SeqsUpTo(CodeChars, MaxCodeLen)

GroupArgs ==
    {[fn |-> "group_states_by_country", states |-> s] : s \in SeqsUpTo(State, MaxStates)}

IndexArgs ==
    {[fn |-> "load_countries", countries |-> s] : s \in SeqsUpTo(Country, MaxCountries)}

FormatArgs ==
    {[fn |-> "format", id1 |-> a, code1 |-> c, id2 |-> b, code2 |-> d] :
        a \in CountryIds, c \in Codes, b \in CountryIds, d \in Codes}

SizeArgs ==
    {[fn |-> "validate_file_size", metadata |-> m] :
        m \in {MetadataError} \cup {Metadata(n) : n \in FileSizes}}

InitFn ==
    /\ pc = "call"
    /\ arg \in GroupArgs \cup IndexArgs \cup FormatArgs \cup SizeArgs
    /\ out = << >>
    /\ run = 1
    /\ countries_json = MalformedFile
    /\ states_json = MalformedFile
    /\ fs = EmptyMap
    /\ fs_start = EmptyMap
    /\ last_write_log = << >>
    /\ meta = [p \in {countries_path, states_path} |-> NotChecked]
    /\ read_log = {}
    /\ country_map = EmptyMap
    /\ states = << >>
    /\ by_country = EmptyMap
    /\ remaining = {}
    /\ write_log = << >>
    /\ err = NoError
    /\ failed_in = "none"

Return(value) ==
    /\ out' = value
    /\ pc' = "return"
    /\ UNCHANGED <<arg, run, disk, fs, earlier, meta, read_log, memory, write_log,
                   err, failed_in>>

CallGroup ==
    /\ pc = "call"
    /\ arg.fn = "group_states_by_country"
    /\ Return(group_states_by_country(arg.states))

CallIndex ==
    /\ pc = "call"
    /\ arg.fn = "load_countries"
    /\ Return(build_country_map(arg.countries))

CallFormat ==
    /\ pc = "call"
    /\ arg.fn = "format"
    /\ Return(<<format_filename(arg.id1, arg.code1), format_filename(arg.id2, arg.code2)>>)

CallValidate ==
    /\ pc = "call"
    /\ arg.fn = "validate_file_size"
    /\ Return(validate_file_size(arg.metadata))

NextFn ==
    \/ CallGroup
    \/ CallIndex
    \/ CallFormat
    \/ CallValidate

SpecFn == InitFn /\ [][NextFn]_vars

\* ----------------------------------------------------------------- claims

Occurrences(seq, r) == Cardinality({i \in 1..Len(seq) : seq[i] = r})

RECURSIVE SumOfSizes(_, _)
SumOfSizes(groups, keys) ==
    IF keys = {} THEN 0
    ELSE LET k == CHOOSE x \in keys : TRUE
         IN  Len(groups[k]) + SumOfSizes(groups, keys \ {k})

RECURSIVE OccurrencesInGroups(_, _, _)
OccurrencesInGroups(groups, keys, r) ==
    IF keys = {} THEN 0
    ELSE LET k == CHOOSE x \in keys : TRUE
         IN  Occurrences(groups[k], r) + OccurrencesInGroups(groups, keys \ {k}, r)

WithCountry(seq, k) == SelectSeq(seq, LAMBDA s : s.country_id = k)

CountryIdsOf(seq) == {seq[i].country_id : i \in 1..Len(seq)}

Returned(f) == pc = "return" /\ arg.fn = f

\* C1: for every input sequence of State records the groups of
\* group_states_by_country hold, under key k, only States whose country_id is
\* k; the group sizes sum to the input length; and every record occurs in the
\* groups as often as in the input (none dropped, none duplicated).
C1_GroupsPartitionInput ==
    Returned("group_states_by_country") =>
        /\ \A k \in DOMAIN out : \A i \in 1..Len(out[k]) : out[k][i].country_id = k
        /\ SumOfSizes(out, DOMAIN out) = Len(arg.states)
        /\ \A r \in State : OccurrencesInGroups(out, DOMAIN out, r) = Occurrences(arg.states, r)

C1_Witness ==
    /\ Returned("group_states_by_country")
    /\ Len(arg.states) = 3
    /\ arg.states[1] = arg.states[3]
    /\ arg.states[2].country_id # arg.states[1].country_id
    /\ Cardinality(DOMAIN out) = 2

\* C2: grouping is stable: the group of every country id k is exactly the
\* subsequence of the input with country_id = k, in the input's order, and a
\* country id with no State has no group.
C2_GroupingIsStable ==
    Returned("group_states_by_country") =>
        /\ DOMAIN out = CountryIdsOf(arg.states)
        /\ \A k \in DOMAIN out : out[k] = WithCountry(arg.states, k)

C2_Witness ==
    /\ Returned("group_states_by_country")
    /\ Len(arg.states) = 3
    /\ arg.states[1].country_id = arg.states[3].country_id
    /\ arg.states[2].country_id # arg.states[1].country_id
    /\ arg.states[1].id > arg.states[3].id
    /\ out[arg.states[1].country_id] = <<arg.states[1], arg.states[3]>>

LastWithId(countries, id) ==
    countries[CHOOSE i \in 1..Len(countries) :
                /\ countries[i].id = id
                /\ \A j \in (i + 1)..Len(countries) : countries[j].id # id]

ExpectedCode(countries, id) ==
    IF \E i \in 1..Len(countries) : countries[i].id = id
    THEN LastWithId(countries, id).code
    ELSE <<"X", "X">>

ExpectedName(countries, id) ==
    u32_to_string(id) \o <<"_">> \o ExpectedCode(countries, id)
    \o <<".", "j", "s", "o", "n">>

\* C3: when write_country_files has succeeded, the artifacts it wrote are
\* exactly one per distinct country_id of the region data, each named
\* k_<code>.json with the catalog's code for k, or XX when the catalog has no
\* record for k, and each holds the serialized group of k.
C3_OneArtifactPerCountryId ==
    pc = "done" =>
        LET ids == CountryIdsOf(states_json.records)
            n == Len(write_log)
        IN  /\ n = Cardinality(ids)
            /\ {write_log[i].key : i \in 1..n} = ids
            /\ Cardinality({write_log[i].name : i \in 1..n}) = Cardinality(ids)
            /\ \A i \in 1..n :
                /\ write_log[i].ok
                /\ write_log[i].name = ExpectedName(countries_json.records, write_log[i].key)
                /\ write_log[i].name \in DOMAIN fs
                /\ fs[write_log[i].name] =
                       to_string_pretty(WithCountry(states_json.records, write_log[i].key))

\* the catalog knows country 1 only, the region file has States of country 12
\* only: one artifact, 12_XX.json, and none for country 1
C3_Witness ==
    /\ pc = "done"
    /\ Len(states_json.records) = 2
    /\ Len(write_log) = 1
    /\ write_log[1].key = 12
    /\ write_log[1].name = <<"1", "2", "_", "X", "X", ".", "j", "s", "o", "n">>
    /\ \E j \in 1..Len(countries_json.records) : countries_json.records[j].id = 1
    /\ DOMAIN fs = {write_log[1].name}

\* C4: the artifact name is determined by (country id, code), and two
\* different country ids never get the same name, whatever the two codes are.
C4_NamesNeverCollide ==
    Returned("format") =>
        /\ arg.id1 # arg.id2 => out[1] # out[2]
        /\ (arg.id1 = arg.id2 /\ arg.code1 = arg.code2) => out[1] = out[2]

C4_Witness ==
    /\ Returned("format")
    /\ arg.id1 = 1 /\ arg.code1 = <<"2", "X">>
    /\ arg.id2 = 12 /\ arg.code2 = <<"X">>
    /\ out[1] = <<"1", "_", "2", "X", ".", "j", "s", "o", "n">>
    /\ out[2] = <<"1", "2", "_", "X", ".", "j", "s", "o", "n">>

\* C5: validate_file_size succeeds for an existing file of at most
\* 100*1024*1024 bytes, fails with FileTooLarge carrying the file's size and the
\* ceiling when the file is larger, and fails with the I/O error when
\* fs::metadata fails (the file does not exist).
C5_SizeGate ==
    Returned("validate_file_size") =>
        LET m == arg.metadata
        IN  /\ (m.ok /\ m.len <= 104857600) => out = NoError
            /\ (m.ok /\ m.len >= 104857601) =>
                   out = [kind |-> "FileTooLarge", size |-> m.len, max_size |-> 104857600]
            /\ ~m.ok => out.kind = "Io"

C5_Witness ==
    /\ Returned("validate_file_size")
    /\ arg.metadata.ok
    /\ arg.metadata.len = 104857600
    /\ out = NoError

\* C6: when load_countries fails, load_states is never attempted; when either
\* load fails, main has returned that error, no grouping was done and the
\* output directory is as the run found it.
C6_LoadFailureStopsTheRun ==
    /\ failed_in = "load_countries" =>
        /\ ~meta[states_path].seen
        /\ states_path \notin read_log
        /\ states = << >>
    /\ failed_in \in {"load_countries", "load_states"} =>
        /\ pc = "failed"
        /\ err.kind \in {"Io", "Json", "FileTooLarge"}
        /\ by_country = EmptyMap
        /\ remaining = {}
        /\ write_log = << >>
        /\ fs = fs_start

C6_Witness ==
    /\ failed_in = "load_states"
    /\ err.kind = "FileTooLarge"
    /\ run = 2
    /\ countries_path \in read_log
    /\ OverlapName \in DOMAIN fs

\* C7: in write_country_files the first failure is the last iteration: main
\* has returned the error, no other group is written after it, and every
\* artifact written before it holds its new content.
C7_WriteFailureAborts ==
    LET n == Len(write_log)
    IN  /\ \A i \in 1..n :
            ~write_log[i].ok =>
                /\ i = n
                /\ pc = "failed"
                /\ failed_in = "write_country_files"
                /\ err.kind \in {"Io", "Json"}
                /\ write_log[i].key \in remaining
        /\ failed_in = "write_country_files" =>
            /\ \A i \in 1..(n - 1) :
                /\ write_log[i].name \in DOMAIN fs
                /\ fs[write_log[i].name] = to_string_pretty(by_country[write_log[i].key])
            /\ \A k \in remaining \ {write_log[n].key} :
                LET name == format_filename(k, resolve_code(country_map, k))
                IN  /\ name \in DOMAIN fs <=> name \in DOMAIN fs_start
                    /\ name \in DOMAIN fs => fs[name] = fs_start[name]

C7_Witness ==
    /\ failed_in = "write_country_files"
    /\ Len(write_log) = 2
    /\ write_log[1].ok
    /\ ~write_log[2].ok
    /\ fs[write_log[1].name] = to_string_pretty(by_country[write_log[1].key])
    /\ write_log[2].name \in DOMAIN fs
    /\ fs[write_log[2].name] = << >>

\* C8: a second successful run on unchanged inputs, started on the output
\* directory the first run left, leaves the same files with the same content,
\* whatever order either run visits the groups in; and no run removes a file
\* it found, nor changes one it does not write.
C8_SecondRunChangesNothing ==
    /\ (pc = "done" /\ run >= 2) => fs = fs_start
    /\ \A name \in DOMAIN fs_start :
        /\ name \in DOMAIN fs
        /\ name \notin {write_log[i].name : i \in 1..Len(write_log)} =>
               fs[name] = fs_start[name]

C8_Witness ==
    /\ pc = "done"
    /\ run = 2
    /\ Len(write_log) = 2
    /\ Len(last_write_log) = 2
    /\ write_log[1].key = last_write_log[2].key
    /\ StaleName \in DOMAIN fs
    /\ fs[StaleName] = OldContent
    /\ fs[OverlapName] # OldContent

\* C9: the index load_countries builds has one entry per distinct id of the
\* input, holding the code of the last record with that id; when no id
\* repeats it has one entry per record.
C9_LastCodeWins ==
    Returned("load_countries") =>
        LET cs == arg.countries
            ids == {cs[i].id : i \in 1..Len(cs)}
        IN  /\ DOMAIN out = ids
            /\ \A id \in ids : out[id] = LastWithId(cs, id).code
            /\ (\A i, j \in 1..Len(cs) : cs[i].id = cs[j].id => i = j) =>
                   /\ Cardinality(DOMAIN out) = Len(cs)
                   /\ \A i \in 1..Len(cs) : out[cs[i].id] = cs[i].code

C9_Witness ==
    /\ Returned("load_countries")
    /\ Len(arg.countries) = 3
    /\ arg.countries[1].id = arg.countries[3].id
    /\ arg.countries[1].code # arg.countries[3].code
    /\ arg.countries[2].id # arg.countries[1].id
    /\ out[arg.countries[1].id] = arg.countries[3].code

Validated(path) ==
    meta[path].seen /\ meta[path].ok /\ meta[path].len <= 104857600

\* C10: a source file's content is read only after validate_file_size has
\* succeeded on that same path in this run: the read is not attempted before,
\* and each of the two files is gated by its own check.
C10_SizeCheckBeforeRead ==
    /\ pc = "lc_read" => Validated(countries_path)
    /\ pc = "ls_read" => Validated(states_path)
    /\ \A path \in read_log : Validated(path)
    /\ pc \in {"main", "lc_validate", "lc_read"} => read_log = {}
    /\ pc \in {"ls_validate", "ls_read"} => read_log \subseteq {countries_path}

C10_Witness ==
    /\ run = 2
    /\ read_log = {countries_path, states_path}
    /\ meta[countries_path].len = 104857600
    /\ meta[states_path].len = 104857600

====
